---- MODULE Spec2Model ----
(***************************************************************************)
(* A model of the r2d2 connection pool (src/src/lib.rs): Pool::new,        *)
(* Pool::get, Pool::put_back (run by PooledConnection::drop), the          *)
(* replenishment task of add_connection and Drop for Pool.                 *)
(*                                                                         *)
(* Threads: one constructor/owner thread ("main"), NumClients client       *)
(* threads that call get and release the handle, and helper_threads        *)
(* executor workers.  The executor (mod task, ScheduledThreadPool) lies    *)
(* outside lib.rs; it is modelled from section 4.1 of the specification:   *)
(* a queue of delayed closures, run_after, clear.                          *)
(*                                                                         *)
(* Time is discrete and relative: every timer holds "deadline - now" and   *)
(* Tick lets one unit (one second, the retry delay of add_connection)      *)
(* elapse.  Time elapses inside manager calls (connect, is_valid), in user *)
(* code (a held handle, an idle client) and in blocking waits; the pool's  *)
(* own straight-line code is instantaneous at this granularity, and a      *)
(* timed wait ends no later than its deadline.                             *)
(***************************************************************************)
EXTENDS Integers, Sequences, FiniteSets

\* ---------------------------------------------------------------- bounds
NumClients == 2
MaxPoolSize == 2
MaxHelperThreads == 2
MaxTimeout == 1

\* Duration::seconds(1), the delay of a retry after a failed connect
RetryDelay == 1

Clients == 1..NumClients
AllWorkers == 1..MaxHelperThreads
\* enough identities for every connection that can exist at one time
Conns == 1..(MaxPoolSize + NumClients + MaxHelperThreads)

VARIABLES
  config,     \* Config: the frozen configuration of SharedPool
  mutex,      \* owner of SharedPool.internals (a Mutex), or Free
  idle,       \* PoolInternals.conns
  num_conns,  \* PoolInternals.num_conns
  live,       \* connections that exist (returned by connect, not yet destroyed)
  queue,      \* ScheduledThreadPool: number of queued tasks per remaining delay
  wpc,        \* position of each executor worker
  wconn,      \* the connection a worker's task got from connect
  cpc,        \* position of each client thread
  cconn,      \* the connection a client popped / holds / is returning
  broken,     \* result of has_broken in a put_back in progress
  endRem,     \* get: end - now
  waitLeft,   \* get: deadline of the current Condvar::wait_timeout, minus now
  mpc,        \* position of the thread that runs Pool::new and owns the Pool
  newRem,     \* new: dur - consumed of wait_timeout_with
  newWait,    \* new: deadline of the current wait, minus now
  torn,       \* SharedPool has been destroyed (its last Arc was dropped)
  handled,    \* log: the handle_error calls made by the most recent step
  popFrom,    \* history: conns as a get found it when it popped the connection it validates
  retrying    \* history: the get in progress has discarded a connection that failed is_valid

vars == <<config, mutex, idle, num_conns, live, queue, wpc, wconn, cpc, cconn,
          broken, endRem, waitLeft, mpc, newRem, newWait, torn, handled, popFrom, retrying>>

Free == <<>>
Main == <<"main">>
Client(c) == <<"client", c>>
NoConn == 0

pool_size == config.pool_size
helper_threads == config.helper_threads
connection_timeout == config.connection_timeout
test_on_check_out == config.test_on_check_out
initialization_fail_fast == config.initialization_fail_fast

Workers == 1..helper_threads

Configs ==
  [pool_size : 1..MaxPoolSize,
   helper_threads : 1..MaxHelperThreads,
   connection_timeout : 0..MaxTimeout,
   test_on_check_out : BOOLEAN,
   initialization_fail_fast : BOOLEAN]

RECURSIVE SeqSet(_)
SeqSet(s) == IF s = <<>> THEN {} ELSE {Head(s)} \cup SeqSet(Tail(s))

Min(S) == CHOOSE x \in S : \A y \in S : x <= y

\* ------------------------------------------------------------- the executor
\* run_after(delay, task)
RunAfter(q, delay) == [q EXCEPT ![delay] = @ + 1]

\* the dispatch of one task whose delay has elapsed
TakeDue(q) == [q EXCEPT ![0] = @ - 1]

\* clear(): every task not yet dispatched is removed
Clear(q) == [d \in 0..RetryDelay |-> 0]

Queued == \E d \in 0..RetryDelay : queue[d] > 0

\* one unit of time passes for the queued tasks
Age(q) ==
  [d \in 0..RetryDelay |->
     IF d = 0 THEN q[0] + q[1]
     ELSE IF d < RetryDelay THEN q[d + 1] ELSE 0]

\* a faulty variant of add_connection: the task is queued without its delay
add_connection_now(q, delay) == RunAfter(q, 0)

\* add_connection(delay, shared): the scheduling half
add_connection(q, delay) == RunAfter(q, delay)

\* ------------------------------------------------------ PoolInternals.conns
\* faulty variants of pop_front: the connection is read but left in the queue; the
\* newest connection is taken instead of the oldest
pop_front_peek(q) == <<Head(q), q>>
pop_back(q) == <<q[Len(q)], SubSeq(q, 1, Len(q) - 1)>>

\* pop_front on a non-empty queue: <<the connection taken, the queue left>>
pop_front(q) == <<Head(q), Tail(q)>>

\* faulty variants of push_back: the connection is dropped instead of queued;
\* it is queued at the front
push_back_lost(q, x) == q
push_front(q, x) == <<x>> \o q

push_back(q, x) == Append(q, x)

\* a faulty variant of InitialTasks: the loop of new runs once too often
InitialTasks_more(n) == n + 1

\* for _ in 0..config.pool_size() { add_connection(Duration::zero(), &shared) }
InitialTasks(n) == n

\* ------------------------------------------------------------- Init
Init ==
  /\ config \in Configs
  /\ mutex = Free
  /\ idle = <<>>
  /\ num_conns = 0
  /\ live = {}
  /\ queue = [d \in 0..RetryDelay |-> IF d = 0 THEN InitialTasks(config.pool_size) ELSE 0]
  /\ wpc = [w \in AllWorkers |-> "idle"]
  /\ wconn = [w \in AllWorkers |-> NoConn]
  /\ cpc = [c \in Clients |-> "idle"]
  /\ cconn = [c \in Clients |-> NoConn]
  /\ broken = [c \in Clients |-> FALSE]
  /\ endRem = [c \in Clients |-> 0]
  /\ waitLeft = [c \in Clients |-> 0]
  /\ mpc = "new"
  /\ newRem = 0
  /\ newWait = 0
  /\ torn = FALSE
  /\ handled = 0
  /\ popFrom = [c \in Clients |-> <<>>]
  /\ retrying = [c \in Clients |-> FALSE]


\* ------------------------------------------------------------- helpers
OwnerPcs == {"new", "new_check", "new_wait", "new_notified", "new_timedout", "alive"}

\* No Arc<SharedPool> is left: the owner thread holds none, no closure is queued
\* and no closure is running.
NoRefs(mp, q, wp) ==
  /\ mp \notin OwnerPcs
  /\ \A d \in 0..RetryDelay : q[d] = 0
  /\ \A w \in AllWorkers : wp[w] = "idle"

\* Dropping SharedPool destroys the connections of conns.
AfterTeardown(lv, q) == lv \ SeqSet(q)

\* end - now and dur - consumed, one unit later (everything below zero is "past")
Elapse(t) == IF t > -1 THEN t - 1 ELSE t

\* a faulty variant of notify_one: the signal reaches no thread
notify_one_lost(cp, mp) == {<<cp, mp>>}

\* Condvar::notify_one: one thread blocked in a wait, whichever, is woken; with
\* none blocked the signal is lost.  The set of <<cpc, mpc>> it can lead to.
notify_one(cp, mp) ==
  IF mp # "new_wait" /\ \A c \in Clients : cp[c] # "get_wait"
  THEN {<<cp, mp>>}
  ELSE {<<[cp EXCEPT ![c] = "get_notified"], mp>> : c \in {d \in Clients : cp[d] = "get_wait"}}
       \cup (IF mp = "new_wait" THEN {<<cp, "new_notified">>} ELSE {})

\* a thread that is no longer blocked has no wait deadline
WaitsOf(cp) == [c \in Clients |-> IF cp[c] = "get_wait" THEN waitLeft[c] ELSE 0]

\* a faulty variant of handled_error: the error is swallowed
handled_error_none(n) == n

\* error_handler.handle_error(err): one more call in this step
handled_error(n) == n + 1

\* ------------------------------------------------------------- Pool::new
\* a faulty variant of Initialized: one open connection is taken for a full pool
Initialized_any == num_conns > 0

\* the predicate handed to wait_timeout_with
Initialized == num_conns = pool_size

\* if !initialized { return Err(InitializationError) } ... Ok(Pool { .. })
NewResult(initialized) == IF initialized THEN "alive" ELSE "failed"

\* new returns: Ok keeps the Arc in the Pool, Err drops it (without clear()).
NewReturn(result) ==
  /\ mpc' = result
  /\ mutex' = Free
  /\ newRem' = 0
  /\ newWait' = 0
  /\ torn' = NoRefs(result, queue, wpc)
  /\ live' = IF torn' THEN AfterTeardown(live, idle) ELSE live

\* The tasks are queued (Init); without fail-fast new returns Ok at once, with
\* it new locks the mutex and enters wait_timeout_with.
NewStart ==
  /\ mpc = "new"
  /\ IF initialization_fail_fast
     THEN /\ mutex = Free
          /\ mutex' = Main
          /\ mpc' = "new_check"
          /\ newRem' = connection_timeout
          /\ UNCHANGED <<newWait, torn, live>>
     ELSE NewReturn("alive")
  /\ UNCHANGED <<config, retrying, idle, num_conns, queue, wpc, wconn, cpc, cconn, broken,
                 endRem, waitLeft, popFrom>>
  /\ handled' = 0


\* wait_timeout_with, holding the mutex: the predicate, then a wait for what is
\* left of the timeout; a wait of no duration times out at once and the
\* predicate (still false) decides.
NewCheck ==
  /\ mpc = "new_check"
  /\ mutex = Main
  /\ IF Initialized
     THEN NewReturn(NewResult(TRUE))
     ELSE IF newRem <= 0
          THEN NewReturn(NewResult(Initialized))
          ELSE /\ mpc' = "new_wait"
               /\ newWait' = newRem
               /\ mutex' = Free
               /\ UNCHANGED <<newRem, torn, live>>
  /\ UNCHANGED <<config, retrying, idle, num_conns, queue, wpc, wconn, cpc, cconn, broken,
                 endRem, waitLeft, popFrom>>
  /\ handled' = 0

NewTimeout ==
  /\ mpc = "new_wait"
  /\ newWait <= 0
  /\ mpc' = "new_timedout"
  /\ newWait' = 0
  /\ UNCHANGED <<config, retrying, mutex, idle, num_conns, live, queue, wpc, wconn, cpc, cconn,
                 broken, endRem, waitLeft, newRem, torn, popFrom>>
  /\ handled' = 0

NewSpurious ==
  /\ mpc = "new_wait"
  /\ mpc' = "new_notified"
  /\ newWait' = 0
  /\ UNCHANGED <<config, retrying, mutex, idle, num_conns, live, queue, wpc, wconn, cpc, cconn,
                 broken, endRem, waitLeft, newRem, torn, popFrom>>
  /\ handled' = 0


\* The wait re-acquires the mutex.  Woken: the loop of wait_timeout_with goes
\* on.  Timed out: the predicate is evaluated a last time and is the result.
NewWake ==
  /\ mpc \in {"new_notified", "new_timedout"}
  /\ mutex = Free
  /\ IF mpc = "new_notified"
     THEN /\ mutex' = Main
          /\ mpc' = "new_check"
          /\ UNCHANGED <<newRem, newWait, torn, live>>
     ELSE NewReturn(NewResult(Initialized))
  /\ UNCHANGED <<config, retrying, idle, num_conns, queue, wpc, wconn, cpc, cconn, broken,
                 endRem, waitLeft, popFrom>>
  /\ handled' = 0


\* Drop for Pool: thread_pool.clear(), then the Pool's Arc goes.  A handle
\* borrows the Pool, so none is live and no get is running.
PoolDrop ==
  /\ mpc = "alive"
  /\ \A c \in Clients : cpc[c] = "idle"
  /\ mpc' = "dropped"
  /\ queue' = Clear(queue)
  /\ torn' = NoRefs("dropped", queue', wpc)
  /\ live' = IF torn' THEN AfterTeardown(live, idle) ELSE live
  /\ UNCHANGED <<config, retrying, mutex, idle, num_conns, wpc, wconn, cpc, cconn, broken,
                 endRem, waitLeft, newRem, newWait, popFrom>>
  /\ handled' = 0


\* --------------------------------------------- history of a get in progress
\* add_connection(zero) of get: this get has discarded a connection and
\* scheduled its replacement
Rescheduled(h, c) == [h EXCEPT ![c] = TRUE]

\* get pops a connection or returns
Settled(h, c) == [h EXCEPT ![c] = FALSE]

\* ------------------------------------------------------------- Pool::get
\* let end = SteadyTime::now() + connection_timeout
GetStart(c) ==
  /\ mpc = "alive"
  /\ cpc[c] = "idle"
  /\ cpc' = [cpc EXCEPT ![c] = "get_lock"]
  /\ endRem' = [endRem EXCEPT ![c] = connection_timeout]
  /\ UNCHANGED <<config, retrying, mutex, idle, num_conns, live, queue, wpc, wconn, cconn,
                 broken, waitLeft, mpc, newRem, newWait, torn, popFrom>>
  /\ handled' = 0


\* let mut internals = self.shared.internals.lock().unwrap()
GetLock(c) ==
  /\ cpc[c] = "get_lock"
  /\ mutex = Free
  /\ mutex' = Client(c)
  /\ cpc' = [cpc EXCEPT ![c] = "get_loop"]
  /\ UNCHANGED <<config, retrying, idle, num_conns, live, queue, wpc, wconn, cconn, broken,
                 endRem, waitLeft, mpc, newRem, newWait, torn, popFrom>>
  /\ handled' = 0


\* a faulty variant of AfterPop: the guard is kept while the connection is
\* validated
AfterPop_held(c) == Client(c)

\* the owner of the mutex once get has popped a connection: drop(internals)
AfterPop(c) == Free

\* Some(conn) = internals.conns.pop_front(); drop(internals); with
\* test_on_check_out unset, return Ok(PooledConnection { .. }) follows at once
GetPop(c) ==
  /\ cpc[c] = "get_loop"
  /\ mutex = Client(c)
  /\ idle # <<>>
  /\ cconn' = [cconn EXCEPT ![c] = pop_front(idle)[1]]
  /\ idle' = pop_front(idle)[2]
  /\ mutex' = AfterPop(c)
  /\ IF test_on_check_out
     THEN /\ cpc' = [cpc EXCEPT ![c] = "get_check"]
          /\ popFrom' = [popFrom EXCEPT ![c] = idle]
          /\ retrying' = Settled(retrying, c)
          /\ UNCHANGED endRem
     ELSE /\ cpc' = [cpc EXCEPT ![c] = "holding"]
          /\ endRem' = [endRem EXCEPT ![c] = 0]
          /\ retrying' = Settled(retrying, c)
          /\ UNCHANGED popFrom
  /\ UNCHANGED <<config, num_conns, live, queue, wpc, wconn, broken,
                 waitLeft, mpc, newRem, newWait, torn>>
  /\ handled' = 0

\* is_valid returned Ok(()): return Ok(PooledConnection { .. })
GetReturn(c) ==
  /\ cpc[c] = "get_check"
  /\ cpc' = [cpc EXCEPT ![c] = "holding"]
  /\ endRem' = [endRem EXCEPT ![c] = 0]
  /\ popFrom' = [popFrom EXCEPT ![c] = <<>>]
  /\ UNCHANGED <<config, retrying, mutex, idle, num_conns, live, queue, wpc, wconn, cconn,
                 broken, waitLeft, mpc, newRem, newWait, torn>>
  /\ handled' = 0

\* is_valid returned Err(e): handle_error(e)
GetInvalid(c) ==
  /\ cpc[c] = "get_check"
  /\ handled' = handled_error(0)
  /\ cpc' = [cpc EXCEPT ![c] = "get_relock"]
  /\ popFrom' = [popFrom EXCEPT ![c] = <<>>]
  /\ UNCHANGED <<config, retrying, mutex, idle, num_conns, live, queue, wpc, wconn, cconn,
                 broken, endRem, waitLeft, mpc, newRem, newWait, torn>>

\* a faulty variant of Discarded: the decrement is forgotten
Discarded_forgot(n) == n

\* internals.num_conns -= 1, of get and of put_back
Discarded(n) == n - 1

\* internals = lock(); internals.num_conns -= 1; add_connection(zero, shared)
GetRelock(c) ==
  /\ cpc[c] = "get_relock"
  /\ mutex = Free
  /\ mutex' = Client(c)
  /\ num_conns' = Discarded(num_conns)
  /\ queue' = add_connection(queue, 0)
  /\ cpc' = [cpc EXCEPT ![c] = "get_drop"]
  /\ retrying' = Rescheduled(retrying, c)
  /\ UNCHANGED <<config, idle, live, wpc, wconn, cconn, broken, endRem, waitLeft,
                 mpc, newRem, newWait, torn, popFrom>>
  /\ handled' = 0


\* continue: conn goes out of scope and is destroyed, the loop starts over
GetDropConn(c) ==
  /\ cpc[c] = "get_drop"
  /\ live' = live \ {cconn[c]}
  /\ cconn' = [cconn EXCEPT ![c] = NoConn]
  /\ cpc' = [cpc EXCEPT ![c] = "get_loop"]
  /\ UNCHANGED <<config, retrying, mutex, idle, num_conns, queue, wpc, wconn, broken, endRem,
                 waitLeft, mpc, newRem, newWait, torn, popFrom>>
  /\ handled' = 0


\* a faulty variant of WaitDur: the whole timeout is waited again at every iteration
WaitDur_whole(c) == connection_timeout

\* the duration handed to wait_timeout: end - now
WaitDur(c) == endRem[c]

\* None: wait_timeout(internals, end - now).  A wait of no duration returns
\* "timed out" at once, and get returns Err(GetTimeout).
GetWait(c) ==
  /\ cpc[c] = "get_loop"
  /\ mutex = Client(c)
  /\ idle = <<>>
  /\ mutex' = Free
  /\ IF WaitDur(c) <= 0
     THEN /\ cpc' = [cpc EXCEPT ![c] = "idle"]
          /\ endRem' = [endRem EXCEPT ![c] = 0]
          /\ retrying' = Settled(retrying, c)
          /\ UNCHANGED waitLeft
     ELSE /\ cpc' = [cpc EXCEPT ![c] = "get_wait"]
          /\ waitLeft' = [waitLeft EXCEPT ![c] = WaitDur(c)]
          /\ UNCHANGED <<endRem, retrying>>
  /\ UNCHANGED <<config, idle, num_conns, live, queue, wpc, wconn, cconn, broken,
                 mpc, newRem, newWait, torn, popFrom>>
  /\ handled' = 0


\* the wait reaches its deadline
GetTimeout(c) ==
  /\ cpc[c] = "get_wait"
  /\ waitLeft[c] <= 0
  /\ cpc' = [cpc EXCEPT ![c] = "get_timedout"]
  /\ waitLeft' = [waitLeft EXCEPT ![c] = 0]
  /\ UNCHANGED <<config, retrying, mutex, idle, num_conns, live, queue, wpc, wconn, cconn,
                 broken, endRem, mpc, newRem, newWait, torn, popFrom>>
  /\ handled' = 0


\* a spurious wake-up of the wait
GetSpurious(c) ==
  /\ cpc[c] = "get_wait"
  /\ cpc' = [cpc EXCEPT ![c] = "get_notified"]
  /\ waitLeft' = [waitLeft EXCEPT ![c] = 0]
  /\ UNCHANGED <<config, retrying, mutex, idle, num_conns, live, queue, wpc, wconn, cconn,
                 broken, endRem, mpc, newRem, newWait, torn, popFrom>>
  /\ handled' = 0


\* wait_timeout re-acquires the mutex and returns (internals, no_timeout):
\* if !no_timeout { return Err(GetTimeout) }, else the loop starts over
GetWake(c) ==
  /\ cpc[c] \in {"get_notified", "get_timedout"}
  /\ mutex = Free
  /\ IF cpc[c] = "get_notified"
     THEN /\ mutex' = Client(c)
          /\ cpc' = [cpc EXCEPT ![c] = "get_loop"]
          /\ UNCHANGED <<endRem, retrying>>
     ELSE /\ mutex' = Free
          /\ cpc' = [cpc EXCEPT ![c] = "idle"]
          /\ endRem' = [endRem EXCEPT ![c] = 0]
          /\ retrying' = Settled(retrying, c)
  /\ UNCHANGED <<config, idle, num_conns, live, queue, wpc, wconn, cconn, broken,
                 waitLeft, mpc, newRem, newWait, torn, popFrom>>
  /\ handled' = 0


\* ------------------------------------- PooledConnection::drop, Pool::put_back
\* the handle is released: put_back(conn) starts with has_broken(&mut conn)
Release(c) ==
  /\ cpc[c] = "holding"
  /\ \E b \in BOOLEAN : broken' = [broken EXCEPT ![c] = b]
  /\ cpc' = [cpc EXCEPT ![c] = "put_lock"]
  /\ UNCHANGED <<config, retrying, mutex, idle, num_conns, live, queue, wpc, wconn, cconn,
                 endRem, waitLeft, mpc, newRem, newWait, torn, popFrom>>
  /\ handled' = 0


\* lock; if broken { num_conns -= 1 } else { push_back(conn); notify_one() };
\* the guard is dropped at the end of the function
PutBack(c) ==
  /\ cpc[c] = "put_lock"
  /\ mutex = Free
  /\ IF broken[c]
     THEN /\ num_conns' = Discarded(num_conns)
          /\ cpc' = [cpc EXCEPT ![c] = "put_drop"]
          /\ UNCHANGED <<idle, cconn, mpc, waitLeft>>
     ELSE /\ idle' = push_back(idle, cconn[c])
          /\ cconn' = [cconn EXCEPT ![c] = NoConn]
          /\ \E n \in notify_one([cpc EXCEPT ![c] = "idle"], mpc) :
               /\ cpc' = n[1]
               /\ mpc' = n[2]
               /\ waitLeft' = WaitsOf(n[1])
          /\ UNCHANGED num_conns
  /\ broken' = [broken EXCEPT ![c] = FALSE]
  /\ UNCHANGED <<config, retrying, mutex, live, queue, wpc, wconn, endRem, newRem, newWait,
                 torn, popFrom>>
  /\ handled' = 0


\* the broken connection, a parameter of put_back, is destroyed on return
PutDrop(c) ==
  /\ cpc[c] = "put_drop"
  /\ live' = live \ {cconn[c]}
  /\ cconn' = [cconn EXCEPT ![c] = NoConn]
  /\ cpc' = [cpc EXCEPT ![c] = "idle"]
  /\ UNCHANGED <<config, retrying, mutex, idle, num_conns, queue, wpc, wconn, broken, endRem,
                 waitLeft, mpc, newRem, newWait, torn, popFrom>>
  /\ handled' = 0


\* --------------------------------------- the task queued by add_connection
\* a worker of the executor takes a task whose delay has elapsed
Dispatch(w) ==
  /\ w \in Workers
  /\ ~torn
  /\ wpc[w] = "idle"
  /\ queue[0] > 0
  /\ queue' = TakeDue(queue)
  /\ wpc' = [wpc EXCEPT ![w] = "connect"]
  /\ UNCHANGED <<config, retrying, mutex, idle, num_conns, live, wconn, cpc, cconn, broken,
                 endRem, waitLeft, mpc, newRem, newWait, torn, popFrom>>
  /\ handled' = 0


\* shared.manager.connect() returns Ok(conn)
ConnectOk(w) ==
  /\ wpc[w] = "connect"
  /\ Conns \ live # {}
  /\ LET conn == Min(Conns \ live) IN
       /\ wconn' = [wconn EXCEPT ![w] = conn]
       /\ live' = live \cup {conn}
  /\ wpc' = [wpc EXCEPT ![w] = "insert"]
  /\ UNCHANGED <<config, retrying, mutex, idle, num_conns, queue, cpc, cconn, broken, endRem,
                 waitLeft, mpc, newRem, newWait, torn, popFrom>>
  /\ handled' = 0


\* connect() returns Err(err): handle_error(err); add_connection(seconds(1))
ConnectErr(w) ==
  /\ wpc[w] = "connect"
  /\ handled' = handled_error(0)
  /\ queue' = add_connection(queue, RetryDelay)
  /\ wpc' = [wpc EXCEPT ![w] = "idle"]
  /\ UNCHANGED <<config, retrying, mutex, idle, num_conns, live, wconn, cpc, cconn, broken,
                 endRem, waitLeft, mpc, newRem, newWait, torn, popFrom>>


\* a faulty variant of Added: the increment is forgotten
Added_forgot(n) == n

\* num_conns += 1
Added(n) == n + 1

\* lock; conns.push_back(conn); num_conns += 1; notify_one(); the closure ends
\* and its Arc<SharedPool> is dropped
TaskInsert(w) ==
  /\ wpc[w] = "insert"
  /\ mutex = Free
  /\ idle' = push_back(idle, wconn[w])
  /\ num_conns' = Added(num_conns)
  /\ \E n \in notify_one(cpc, mpc) :
       /\ cpc' = n[1]
       /\ mpc' = n[2]
       /\ waitLeft' = WaitsOf(n[1])
       /\ newWait' = IF n[2] = "new_wait" THEN newWait ELSE 0
  /\ wpc' = [wpc EXCEPT ![w] = "idle"]
  /\ wconn' = [wconn EXCEPT ![w] = NoConn]
  /\ torn' = NoRefs(mpc', queue, wpc')
  /\ live' = IF torn' THEN AfterTeardown(live, idle') ELSE live
  /\ UNCHANGED <<config, retrying, mutex, queue, cconn, broken, endRem, newRem, popFrom>>
  /\ handled' = 0


\* ------------------------------------------------------------- time
\* the threads for which time passes: in a manager call, in user code, blocked
\* in a wait whose deadline lies ahead, or (a worker) waiting for a task
ClientLetsTimePass(c) ==
  \/ cpc[c] \in {"idle", "holding"}
  \/ cpc[c] = "get_check"
  \/ cpc[c] = "get_wait" /\ waitLeft[c] > 0

WorkerLetsTimePass(w) ==
  \/ wpc[w] = "connect"
  \/ wpc[w] = "idle" /\ (queue[0] = 0 \/ torn \/ w \notin Workers)

OwnerLetsTimePass ==
  \/ mpc \in {"alive", "failed", "dropped"}
  \/ mpc = "new_wait" /\ newWait > 0

\* no thread is inside the pool's code and no timed wait is at its deadline
TimeCanPass ==
  /\ \A c \in Clients : ClientLetsTimePass(c)
  /\ \A w \in AllWorkers : WorkerLetsTimePass(w)
  /\ OwnerLetsTimePass

Tick ==
  /\ TimeCanPass
  /\ endRem' = [c \in Clients |->
                  IF cpc[c] \in {"get_check", "get_relock", "get_drop", "get_wait"} THEN Elapse(endRem[c]) ELSE endRem[c]]
  /\ waitLeft' = [c \in Clients |->
                  IF cpc[c] = "get_wait" THEN Elapse(waitLeft[c]) ELSE waitLeft[c]]
  /\ newRem' = IF mpc = "new_wait" THEN Elapse(newRem) ELSE newRem
  /\ newWait' = IF mpc = "new_wait" THEN Elapse(newWait) ELSE newWait
  /\ queue' = Age(queue)
  /\ UNCHANGED <<config, retrying, mutex, idle, num_conns, live, wpc, wconn, cpc, cconn,
                 broken, mpc, torn, popFrom>>
  /\ handled' = 0


\* ------------------------------------------------------------- Next
Next ==
  \/ NewStart
  \/ NewCheck
  \/ NewTimeout
  \/ NewSpurious
  \/ NewWake
  \/ PoolDrop
  \/ \E c \in Clients : GetStart(c)
  \/ \E c \in Clients : GetLock(c)
  \/ \E c \in Clients : GetPop(c)
  \/ \E c \in Clients : GetReturn(c)
  \/ \E c \in Clients : GetInvalid(c)
  \/ \E c \in Clients : GetRelock(c)
  \/ \E c \in Clients : GetDropConn(c)
  \/ \E c \in Clients : GetWait(c)
  \/ \E c \in Clients : GetTimeout(c)
  \/ \E c \in Clients : GetSpurious(c)
  \/ \E c \in Clients : GetWake(c)
  \/ \E c \in Clients : Release(c)
  \/ \E c \in Clients : PutBack(c)
  \/ \E c \in Clients : PutDrop(c)
  \/ \E w \in AllWorkers : Dispatch(w)
  \/ \E w \in AllWorkers : ConnectOk(w)
  \/ \E w \in AllWorkers : ConnectErr(w)
  \/ \E w \in AllWorkers : TaskInsert(w)
  \/ Tick

Spec == Init /\ [][Next]_vars

\* A pool of one connection and one helper thread, for the properties of
\* behaviours rather than of states.
SmallInit ==
  /\ Init
  /\ config.pool_size = 1
  /\ config.helper_threads = 1
  /\ config.connection_timeout = 1

\* What the scheduling of threads guarantees: a thread inside the pool's code
\* goes on, a manager call returns (with either result), a mutex that is
\* released again and again is obtained, and time passes.  Nothing obliges the
\* user to call get, to release a handle or to drop the Pool, and no wait is
\* obliged to wake spuriously.
ClientStep(c) ==
  \/ GetLock(c) \/ GetPop(c) \/ GetReturn(c) \/ GetInvalid(c) \/ GetRelock(c)
  \/ GetDropConn(c) \/ GetWait(c) \/ GetTimeout(c) \/ GetWake(c)
  \/ PutBack(c) \/ PutDrop(c)

WorkerStep(w) == Dispatch(w) \/ ConnectOk(w) \/ ConnectErr(w) \/ TaskInsert(w)

OwnerStep == NewStart \/ NewCheck \/ NewTimeout \/ NewWake

Fairness ==
  /\ SF_vars(Tick)
  /\ SF_vars(OwnerStep)
  /\ \A c \in Clients : SF_vars(ClientStep(c))
  /\ \A w \in AllWorkers : SF_vars(WorkerStep(w))

\* connect may fail at every call
FairSpec == SmallInit /\ [][Next]_vars /\ Fairness

\* Time does not stop: no thread performs infinitely many steps of pool code,
\* wake-ups or calls in a bounded time, so again and again every thread is
\* outside the pool's code and time can pass (and then, by the fairness of
\* Tick, it does).
NonZeno == []<>TimeCanPass

\* connect may fail at every call, every configuration
FairSpecAll == Init /\ [][Next]_vars /\ Fairness /\ NonZeno

\* The pools that validate at checkout and whose get can wait, with one
\* helper thread.
ValidatingInit ==
  /\ Init
  /\ config.test_on_check_out
  /\ config.connection_timeout = MaxTimeout
  /\ config.helper_threads = 1

\* connect may fail at every call, the pools that validate at checkout
FairSpecValidating == ValidatingInit /\ [][Next]_vars /\ Fairness /\ NonZeno

\* connect does not fail forever
FairSpecConnect ==
  SmallInit /\ [][Next]_vars /\ Fairness /\ \A w \in AllWorkers : SF_vars(ConnectOk(w))

TypeOK ==
  /\ config \in Configs
  /\ mutex \in {Free, Main} \cup {Client(c) : c \in Clients}
  /\ num_conns \in Int
  /\ live \subseteq Conns
  /\ torn \in BOOLEAN
  /\ handled \in {0, 1}
  /\ retrying \in [Clients -> BOOLEAN]


\* ===================================================================== claims
\* the clients whose handle wraps a connection (put_back has not yet locked)
Handles == {c \in Clients : cpc[c] \in {"holding", "put_lock"}}

\* the clients whose get popped a connection that it has not yet given up
Validating == {c \in Clients : cpc[c] \in {"get_check", "get_relock"}}

\* the number of positions of conns that hold x
RECURSIVE Occurrences(_, _)
Occurrences(q, x) ==
  IF q = <<>> THEN 0
  ELSE (IF Head(q) = x THEN 1 ELSE 0) + Occurrences(Tail(q), x)

\* C1: in every reachable state 0 <= num_conns <= pool_size and
\* idle.len() <= num_conns.
C1_CounterBounds ==
  /\ 0 <= num_conns
  /\ num_conns <= pool_size
  /\ Len(idle) <= num_conns

\* C1 witness: a discard has decremented a pool that still has connections,
\* all of them idle.
C1_Witness ==
  /\ \E c \in Clients : cpc[c] \in {"get_drop", "put_drop"}
  /\ 0 < num_conns
  /\ num_conns < pool_size
  /\ Len(idle) = num_conns

\* C2: every connection is in at most one place: once in the idle queue, or
\* with one client (popped and validated, wrapped by its handle, or being
\* returned or discarded), or with the one task that opened it.
C2_ExclusiveHandout ==
  \A x \in Conns :
    Occurrences(idle, x)
      + Cardinality({c \in Clients : cconn[c] = x})
      + Cardinality({w \in AllWorkers : wconn[w] = x}) <= 1

\* C2 witness: two handles are live at once, a third connection being
\* impossible, and they wrap different connections.
C2_Witness ==
  \E c, d \in Clients :
    /\ c # d
    /\ cpc[c] = "holding"
    /\ cpc[d] = "holding"
    /\ cconn[c] # cconn[d]

\* C3: num_conns is the number of idle connections plus those wrapped by a
\* handle (or handed to a put_back that has not locked yet) plus those popped
\* by a get that validates them; so when nothing is in progress,
\* idle.len() = num_conns.
C3_Population ==
  num_conns = Len(idle) + Cardinality(Handles) + Cardinality(Validating)

\* C3 witness: every handle has been released, one of them broken, and nothing
\* is in progress.
C3_Witness ==
  /\ mpc = "alive"
  /\ \A c \in Clients : cpc[c] = "idle"
  /\ \A w \in AllWorkers : wpc[w] = "idle"
  /\ ~Queued
  /\ 0 < num_conns
  /\ num_conns < pool_size
  /\ Len(idle) = num_conns

\* C4: a get is never blocked in the condition variable after its deadline
\* end; every wait it starts ends at end (the remaining time is end - now), and
\* with connection_timeout = 0 it never blocks at all; a get that holds the
\* mutex at or after end and finds no idle connection returns GetTimeout, with
\* no connection.
C4_WaitBound ==
  \A c \in Clients :
    /\ cpc[c] = "get_wait" => endRem[c] >= 0 /\ waitLeft[c] = endRem[c]
    /\ connection_timeout = 0 => cpc[c] \notin {"get_wait", "get_notified", "get_timedout"}

C4_TimeoutStep ==
  \A c \in Clients :
    (cpc[c] = "get_loop" /\ idle = <<>> /\ endRem[c] <= 0 /\ cpc'[c] # "get_loop")
      => cpc'[c] = "idle" /\ cconn'[c] = NoConn

\* C4, as one property: the bound on waits in every state and the timeout
\* return in every step.
C4_Deadline == []C4_WaitBound /\ [][C4_TimeoutStep]_vars

\* C4 witness: a get has waited until its deadline and its wait has timed out
\* there, while another client holds the only connection.
C4_Witness ==
  \E c \in Clients :
    /\ cpc[c] = "get_timedout"
    /\ endRem[c] = 0
    /\ connection_timeout > 0
    /\ idle = <<>>

\* C5: the idle queue is first in, first out: a step leaves it alone, appends
\* one connection at its back, or removes its front, which the popping get
\* receives; the connection a get validates was the oldest in the queue.
C5_FifoStep ==
  \/ idle' = idle
  \/ \E x \in Conns : idle' = Append(idle, x)
  \/ /\ idle # <<>>
     /\ idle' = Tail(idle)
     /\ \E c \in Clients : cconn[c] = NoConn /\ cconn'[c] = Head(idle)

\* C5, as a property of every step.
C5_Fifo == [][C5_FifoStep]_vars

\* C5 witness: a get popped the older of two idle connections.
C5_Witness ==
  \E c \in Clients :
    /\ cpc[c] = "get_check"
    /\ Len(popFrom[c]) >= 2
    /\ cconn[c] = popFrom[c][1]
    /\ idle = Tail(popFrom[c])

\* C6: with fail-fast, new returns Ok only from a state in which
\* num_conns = pool_size, reached no later than the deadline of its wait, and
\* InitializationError from a state in which num_conns # pool_size; without
\* fail-fast its one step returns Ok.
C6_NewStep ==
  /\ (mpc # "alive" /\ mpc' = "alive") =>
       IF initialization_fail_fast
       THEN num_conns = pool_size /\ newRem >= 0
       ELSE mpc = "new"
  /\ (mpc # "failed" /\ mpc' = "failed") =>
       initialization_fail_fast /\ num_conns # pool_size
  /\ (mpc = "new" /\ mpc' # "new" /\ ~initialization_fail_fast) => mpc' = "alive"

\* C6, as a property of every step.
C6_New == [][C6_NewStep]_vars

\* C6 witness: new has returned InitializationError although a connection,
\* but not all of them, was open.
C6_Witness ==
  /\ mpc = "failed"
  /\ 0 < num_conns
  /\ num_conns < pool_size

\* C8: at most pool_size handles are live; while pool_size handles are live
\* the idle queue is empty and no get holds a popped connection, so every
\* other get waits or times out; a release that returns the connection while
\* gets are blocked wakes exactly one of them.
C8_HandleBound ==
  /\ Cardinality(Handles) <= pool_size
  /\ Cardinality(Handles) = pool_size => idle = <<>> /\ Validating = {}

C8_ReleaseStep ==
  \A c \in Clients :
    (cpc[c] = "put_lock" /\ cpc'[c] = "idle" /\ \E d \in Clients : cpc[d] = "get_wait")
      => /\ idle' = Append(idle, cconn[c])
         /\ Cardinality({d \in Clients : cpc[d] = "get_wait" /\ cpc'[d] = "get_notified"}) = 1

C7_Repaired ==
  [](mpc = "alive" /\ num_conns < pool_size
       => <>(num_conns = pool_size \/ mpc # "alive"))

\* C9: once the Pool is dropped, no worker starts a replenishment task (no
\* connect call starts).
C9_NoStartStep ==
  mpc = "dropped" =>
    \A w \in AllWorkers : ~(wpc[w] = "idle" /\ wpc'[w] = "connect")

\* C9, as a property of every step.
C9_NoTaskAfterDrop == [][C9_NoStartStep]_vars

\* C10: once new has returned InitializationError, eventually SharedPool is
\* destroyed, with every connection, and no task is queued or running.
C10_TornDown ==
  [](mpc = "failed"
       => <>(torn /\ live = {} /\ ~Queued /\ \A w \in AllWorkers : wpc[w] = "idle"))

\* the replenishment tasks that exist: queued in the executor or running
Tasks ==
  queue[0] + queue[RetryDelay] + Cardinality({w \in AllWorkers : wpc[w] # "idle"})

\* connect fails at every call: no connection ever exists
ConnectAlwaysFails == [](live = {})

C11_Empty ==
  /\ num_conns = 0
  /\ num_conns < pool_size
  /\ idle = <<>>
  /\ initialization_fail_fast => mpc # "alive"
  /\ \A c \in Clients : cpc[c] \in {"idle", "get_lock", "get_loop", "get_wait",
                                     "get_notified", "get_timedout"}
  /\ mpc # "dropped" => Tasks = pool_size

C11_RetryStep ==
  \A w \in AllWorkers :
    (wpc[w] = "connect" /\ wpc'[w] = "idle")
      => /\ handled' = 1
         /\ queue'[0] = queue[0]
         /\ queue'[RetryDelay] = queue[RetryDelay] + 1

\* C11: when connect fails at every call, num_conns stays 0 < pool_size and
\* idle stays empty, new with fail-fast returns InitializationError, every get
\* ends, and ends with GetTimeout (it never obtains a connection), and while
\* the Pool is not dropped pool_size tasks exist and the Error Handler is called
\* again and again; a failed attempt calls the Error Handler once and queues
\* its retry with the 1-second delay, not for immediate dispatch.
C11_ConnectAlwaysFails ==
  /\ ConnectAlwaysFails =>
       /\ []C11_Empty
       /\ (initialization_fail_fast => <>(mpc = "failed"))
       /\ \A c \in Clients : [](cpc[c] # "idle" => <>(cpc[c] = "idle"))
       /\ ([](mpc # "dropped") => []<>(handled = 1))
  /\ [][C11_RetryStep]_vars

\* C11 witness: no connection was ever opened, every task has failed and waits
\* for its retry, and the wait of a get has timed out.
C11_Witness ==
  /\ live = {}
  /\ num_conns = 0
  /\ mpc = "alive"
  /\ queue[RetryDelay] = pool_size
  /\ pool_size = MaxPoolSize
  /\ \E c \in Clients : cpc[c] = "get_timedout"

\* C12: a get returns GetTimeout only from a state in which idle is empty: both
\* when its wait has no duration left and when it has re-acquired the mutex
\* after a timed-out wait.
C12_TimeoutStep ==
  \A c \in Clients :
    (cpc[c] \in {"get_loop", "get_timedout"} /\ cpc'[c] = "idle") => idle = <<>>

\* C12, as a property of every step.
C12_TimeoutOnlyWhenEmpty == [][C12_TimeoutStep]_vars

\* the get callers blocked in the wait, their deadline not reached
Blocked == {c \in Clients : cpc[c] = "get_wait" /\ waitLeft[c] > 0}

\* the get callers that are about to take the mutex, or hold it, and will look
\* at idle: entering get, woken from the wait, or coming back from a failed
\* validation
Arriving ==
  {c \in Clients : cpc[c] \in {"get_lock", "get_loop", "get_notified", "get_relock", "get_drop"}}

\* C13: no wake-up is lost.  An insertion into idle (by put_back or by a task)
\* wakes exactly one of the blocked get callers, if there is one; and in no
\* reachable state is idle non-empty beside a blocked get caller while no
\* caller has been woken or is about to take the mutex.
C13_NoStrandedWaiter ==
  (idle # <<>> /\ Blocked # {}) => Arriving # {}

C13_SignalStep ==
  (Len(idle') = Len(idle) + 1 /\ \E c \in Clients : cpc[c] = "get_wait")
    => Cardinality({c \in Clients : cpc[c] = "get_wait" /\ cpc'[c] = "get_notified"}) = 1

\* C13, as one property.
C13_NoLostWakeup == []C13_NoStrandedWaiter /\ [][C13_SignalStep]_vars

\* C13 witness: two get callers were blocked when a task inserted a connection;
\* one has been woken, the other is still blocked, its deadline ahead.
C13_Witness ==
  /\ idle # <<>>
  /\ Blocked # {}
  /\ \E c \in Clients : cpc[c] = "get_notified"
  /\ \A c \in Clients : cpc[c] \in {"get_wait", "get_notified"}

\* C14: a failed is_valid in get.  With test_on_check_out set: the step that
\* sees the failure calls the Error Handler once and changes nothing of the
\* pool; the next step of that get decrements num_conns by 1 and queues one
\* task with delay 0; the next destroys the connection, which is neither in
\* idle nor with anyone else, and is back at the top of the loop, never at a
\* return; none of them changes the deadline of the get.  With
\* test_on_check_out unset no get validates, and a pop returns the front of
\* idle as it is.
C14_InvalidStep ==
  \A c \in Clients :
    /\ (cpc[c] = "get_check" /\ cpc'[c] # "get_check") =>
         /\ test_on_check_out
         /\ cpc'[c] \in {"holding", "get_relock"}
         /\ cpc'[c] = "get_relock" =>
              /\ handled' = 1
              /\ cconn'[c] = cconn[c]
              /\ UNCHANGED <<num_conns, idle, queue, endRem, live>>
    /\ (cpc[c] = "get_relock" /\ cpc'[c] # "get_relock") =>
         /\ cpc'[c] = "get_drop"
         /\ handled' = 0
         /\ num_conns' = num_conns - 1
         /\ queue' = [queue EXCEPT ![0] = @ + 1]
         /\ UNCHANGED <<idle, endRem>>
    /\ (cpc[c] = "get_drop" /\ cpc'[c] # "get_drop") =>
         /\ cpc'[c] = "get_loop"
         /\ handled' = 0
         /\ cconn[c] \notin live'
         /\ cconn[c] \notin SeqSet(idle')
         /\ \A d \in Clients : cconn'[d] # cconn[c]
         /\ UNCHANGED <<num_conns, idle, queue, endRem>>
    /\ (~test_on_check_out /\ cpc[c] = "get_loop" /\ cpc'[c] \notin {"get_loop", "get_wait", "idle"}) =>
         /\ cpc'[c] = "holding"
         /\ cconn'[c] = Head(idle)
         /\ handled' = 0

C14_NoValidation ==
  ~test_on_check_out =>
    \A c \in Clients : cpc[c] \notin {"get_check", "get_relock", "get_drop"}

\* C14, as one property.
C14_ValidationFailure == []C14_NoValidation /\ [][C14_InvalidStep]_vars

\* C14 witness: the only connection of a full pool failed is_valid; the get has
\* decremented num_conns and queued the replacement, and goes on.
C14_Witness ==
  \E c \in Clients :
    /\ cpc[c] = "get_drop"
    /\ num_conns = pool_size - 1
    /\ queue[0] = 1
    /\ idle = <<>>
    /\ cconn[c] \in live

\* a call of get is in progress
InGet(c) ==
  cpc[c] \in {"get_lock", "get_loop", "get_check", "get_relock", "get_drop",
              "get_wait", "get_notified", "get_timedout"}

\* no other caller is in a get, so that none can take a connection
Alone(c) == \A d \in Clients \ {c} : ~InGet(d)

\* the get of c has discarded a connection that failed is_valid, and a
\* connection is in idle strictly before its deadline
Healed(c) == retrying[c] /\ idle # <<>> /\ endRem[c] > 0

C15_HealStep ==
  \A c \in Clients :
    /\ (Healed(c) /\ Alone(c)) =>
         \/ Healed(c)' /\ InGet(c)'
         \/ ~Alone(c)'
         \/ cpc'[c] = "get_check" /\ cconn'[c] = Head(idle)
    /\ (cpc[c] = "get_check" /\ cpc'[c] \notin {"get_check", "get_relock"}) =>
         /\ cpc'[c] = "holding"
         /\ cconn'[c] = cconn[c]
         /\ cconn[c] \in live'

Waiting == {c \in Clients : cpc[c] = "get_wait"}

\* C16: the release of a handle runs put_back once: the handle goes to
\* put_back, put_back takes its one step under the mutex and is over.  With
\* has_broken true that step decrements num_conns by 1 and leaves idle, the
\* queued tasks and the blocked waiters (new's wait included) as they are, and
\* reports no error; the connection is then destroyed.  With has_broken false
\* it appends the connection at the back of idle, leaves num_conns and the
\* queued tasks as they are, reports no error, and its one signal wakes
\* exactly one blocked waiter (none when none is blocked).
C16_ReturnStep ==
  \A c \in Clients :
    /\ (cpc[c] = "holding" /\ cpc'[c] # "holding") =>
         /\ cpc'[c] = "put_lock"
         /\ cconn'[c] = cconn[c]
         /\ UNCHANGED <<idle, num_conns, queue>>
    /\ (cpc[c] = "put_lock" /\ cpc'[c] # "put_lock" /\ broken[c]) =>
         /\ cpc'[c] = "put_drop"
         /\ num_conns' = num_conns - 1
         /\ idle' = idle
         /\ queue' = queue
         /\ wpc' = wpc
         /\ Waiting' = Waiting
         /\ mpc' = mpc
         /\ handled' = 0
    /\ (cpc[c] = "put_lock" /\ cpc'[c] # "put_lock" /\ ~broken[c]) =>
         /\ cpc'[c] = "idle"
         /\ idle' = Append(idle, cconn[c])
         /\ num_conns' = num_conns
         /\ queue' = queue
         /\ wpc' = wpc
         /\ handled' = 0
         /\ Waiting' \subseteq Waiting
         /\ Cardinality(Waiting \ Waiting') = (IF Waiting = {} THEN 0 ELSE 1)
         /\ \A d \in Waiting \ Waiting' : cpc'[d] = "get_notified"
    /\ (cpc[c] = "put_drop" /\ cpc'[c] # "put_drop") =>
         /\ cpc'[c] = "idle"
         /\ cconn[c] \notin live'
         /\ cconn[c] \notin SeqSet(idle')
         /\ UNCHANGED <<idle, num_conns, queue>>

\* C16, as a property of every step.
C16_ReturnPath == [][C16_ReturnStep]_vars

\* C16 witness: a broken connection has been returned while a get is blocked:
\* num_conns is one less, the get is still blocked beside an empty idle
\* queue, and no task is queued or running.
C16_Witness ==
  \E c \in Clients :
    /\ cpc[c] = "put_drop"
    /\ num_conns = pool_size - 1
    /\ idle = <<>>
    /\ Tasks = 0
    /\ \E d \in Clients : cpc[d] = "get_wait" /\ waitLeft[d] > 0

\* the threads blocked in a wait on cond: get callers and new
BlockedOnCond == Waiting \cup (IF mpc = "new_wait" THEN {Main} ELSE {})

\* C17: a run of a replenishment task ends in one of two ways.  connect
\* returned Ok: nothing of the pool changes until, in one critical section, the
\* connection is appended to idle, num_conns grows by 1 and one blocked thread,
\* if any, is woken; no error is reported and no task is queued.  connect
\* returned Err: the Error Handler is called once, idle and num_conns are as
\* before, and one task is queued with the 1-second delay - whatever the
\* number of failures before.
C17_TaskStep ==
  \A w \in AllWorkers :
    /\ (wpc[w] = "connect" /\ wpc'[w] # "connect") =>
         \/ /\ wpc'[w] = "insert"
            /\ wconn'[w] \in live' \ live
            /\ handled' = 0
            /\ UNCHANGED <<idle, num_conns, queue, cpc, mpc>>
         \/ /\ wpc'[w] = "idle"
            /\ wconn'[w] = NoConn
            /\ handled' = 1
            /\ queue' = [queue EXCEPT ![RetryDelay] = @ + 1]
            /\ UNCHANGED <<idle, num_conns, live, cpc, mpc>>
    /\ (wpc[w] = "insert" /\ wpc'[w] # "insert") =>
         /\ wpc'[w] = "idle"
         /\ idle' = Append(idle, wconn[w])
         /\ num_conns' = num_conns + 1
         /\ handled' = 0
         /\ queue' = queue
         /\ BlockedOnCond' \subseteq BlockedOnCond
         /\ Cardinality(BlockedOnCond \ BlockedOnCond')
              = (IF BlockedOnCond = {} THEN 0 ELSE 1)

\* C17, as a property of every step.
C17_TaskOutcomes == [][C17_TaskStep]_vars

\* C17 witness: of two tasks one has just failed, and its retry is queued with
\* the delay, while the connect of the other has succeeded and its connection
\* awaits its insertion.
C17_Witness ==
  /\ handled = 1
  /\ queue[RetryDelay] = 1
  /\ queue[0] = 0
  /\ \E w \in AllWorkers : wpc[w] = "insert" /\ wconn[w] \in live
  /\ \A c \in Clients : cpc[c] = "idle"
  /\ num_conns = 0

\* the client is inside a manager call or about to make it: is_valid of get,
\* has_broken of put_back (made by the step that leaves "holding")
InManagerCall(c) == cpc[c] \in {"get_check", "holding"}

\* C18: the thread that holds the mutex is in the pool's own code, never in
\* connect, is_valid or has_broken and never blocked: a client holds it only at
\* the top of the loop of get or on its way back there, new only while it
\* evaluates its predicate; a worker takes it only for the insertion, after
\* connect has returned.  So while a manager call is running the mutex is free
\* or held by another thread that is about to release it.
C18_MutexNotHeldInManager ==
  /\ \A c \in Clients :
       /\ InManagerCall(c) => mutex # Client(c)
       /\ mutex = Client(c) => cpc[c] \in {"get_loop", "get_drop"} /\ ~ClientLetsTimePass(c)
  /\ mutex = Main => mpc = "new_check" /\ ~OwnerLetsTimePass
  /\ TimeCanPass => mutex = Free

\* C18 witness: is_valid and connect are both running while another client
\* holds the mutex for its own checkout.
C18_Witness ==
  \E c, d \in Clients :
    /\ c # d
    /\ cpc[c] = "get_check"
    /\ mutex = Client(d)
    /\ cpc[d] = "get_loop"
    /\ \E w \in AllWorkers : wpc[w] = "connect"

\* C19: a step that decrements num_conns for the connection of client c (the
\* relock of get after a failed is_valid, which also queues the replacement, or
\* put_back after has_broken) finds that connection already destroyed.
C19_DecrementStep ==
  \A c \in Clients :
    (cpc[c] \in {"get_relock", "put_lock"} /\ cpc'[c] # cpc[c] /\ num_conns' = num_conns - 1)
      => cconn[c] \notin live

\* C19, as a property of every step.
C19_DestroyedBeforeDecrement == [][C19_DecrementStep]_vars

\* C20: while the Pool is alive at most pool_size connections exist, in every
\* reachable state.
C20_LiveBound == mpc = "alive" => Cardinality(live) <= pool_size

====
